---- MODULE Spec2Model ----
(***************************************************************************)
(* A model of layout_postproc.py: the bounds helpers, the element          *)
(* handlers, the recursive group walker and the run of main().             *)
(*                                                                         *)
(* Numbers are exact rationals <<numerator, denominator>> (denominator     *)
(* > 0, lowest terms); Python's None is the empty tuple.  A path's "d"     *)
(* attribute is held as the command sequence svg.path's parse_path yields  *)
(* for it (kind, start, end, control points), a circle's cx/cy as the      *)
(* numbers float() reads from them.                                        *)
(***************************************************************************)
EXTENDS Integers, Sequences, FiniteSets, TLC

VARIABLES
  \* the run of main()
  pc, input_file, args, rect_padding_mm, root, global_bounds, scaling_info,
  x_off, y_off, uuwidth, uuheight, mmwidth, mmheight, temp_svg, do_rotate,
  xy_pos, pdf, failure, exit_status,
  \* walk_group applied to one group: measure, transform, measure again
  w_orig, w_group, w_off, w_step, w_box1, w_box2,
  \* merge_bounds applied to one pair of boxes
  m_dest, m_src, m_step, m_raised

run_vars == <<pc, input_file, args, rect_padding_mm, root, global_bounds,
              scaling_info, x_off, y_off, uuwidth, uuheight, mmwidth, mmheight,
              temp_svg, do_rotate, xy_pos, pdf, failure, exit_status>>
walk_vars == <<w_orig, w_group, w_off, w_step, w_box1, w_box2>>
merge_vars == <<m_dest, m_src, m_step, m_raised>>
vars == <<run_vars, walk_vars, merge_vars>>

----------------------------------------------------------------------------
(* Exact rational arithmetic standing for Python's float arithmetic.       *)

None == <<>>

Abs(n) == IF n < 0 THEN -n ELSE n

RECURSIVE GCD(_, _)
GCD(a, b) == IF b = 0 THEN a ELSE GCD(b, a % b)

Reduced(n, d, g) == IF d < 0 THEN <<(-n) \div g, (-d) \div g>> ELSE <<n \div g, d \div g>>
Norm(n, d) == Reduced(n, d, GCD(Abs(n), Abs(d)))

Q(n) == <<n, 1>>
QAdd(a, b) == Norm(a[1] * b[2] + b[1] * a[2], a[2] * b[2])
QNeg(a) == <<-a[1], a[2]>>
QSub(a, b) == QAdd(a, QNeg(b))
QMul(a, b) == Norm(a[1] * b[1], a[2] * b[2])
QDiv(a, b) == Norm(a[1] * b[2], a[2] * b[1])
QLt(a, b) == a[1] * b[2] < b[1] * a[2]
QGt(a, b) == QLt(b, a)
QLe(a, b) == ~QLt(b, a)

complex(re, im) == [real |-> re, imag |-> im]

----------------------------------------------------------------------------
(* Configuration                                                           *)

strip_tags == {"text"}
ignore_tags == {"title", "desc"}

----------------------------------------------------------------------------
(* Utilities                                                               *)

\* A qualified tag "{ns}local" is the pair <<ns, local>>.
normalize_tag(tagstr) == tagstr[2]

NoBounds == <<None, None, None, None>>

\* merge_bounds, one guarded assignment at a time.  Comparing None with a
\* number raises TypeError; the assignments made before it stay in dest.
MergeField(st, src, k, less) ==
  IF st.raised \/ src[1] = None THEN st
  ELSE IF st.dest[k] = None THEN [st EXCEPT !.dest[k] = src[k]]
  ELSE IF src[k] = None THEN [st EXCEPT !.raised = TRUE]
  ELSE IF (IF less THEN QLt(src[k], st.dest[k]) ELSE QGt(src[k], st.dest[k]))
       THEN [st EXCEPT !.dest[k] = src[k]]
  ELSE st

merge_bounds(dest, src) ==
  LET s0 == [dest |-> dest, raised |-> FALSE]
      s1 == MergeField(s0, src, 1, TRUE)
      s2 == MergeField(s1, src, 2, TRUE)
      s3 == MergeField(s2, src, 3, FALSE)
  IN  MergeField(s3, src, 4, FALSE)

\* One guarded assignment of update_bounds: dest[k] takes the coordinate
\* when it is unset or the coordinate lies beyond it.
Lower(cur, v) == IF cur = None \/ QLt(v, cur) THEN v ELSE cur
Upper(cur, v) == IF cur = None \/ QGt(v, cur) THEN v ELSE cur
UpperIfSet(cur, v) == IF cur # None /\ QGt(v, cur) THEN v ELSE cur

update_bounds_unset_max(dest, point) ==
  << Lower(dest[1], point.real), Lower(dest[2], point.imag),
     UpperIfSet(dest[3], point.real), UpperIfSet(dest[4], point.imag) >>

update_bounds(dest, point) ==
  << Lower(dest[1], point.real), Lower(dest[2], point.imag),
     Upper(dest[3], point.real), Upper(dest[4], point.imag) >>

manip_start_end(command, xo, yo) ==
  [command EXCEPT
     !.start = complex(QAdd(command.start.real, xo), QAdd(command.start.imag, yo)),
     !.end = complex(QAdd(command.end.real, xo), QAdd(command.end.imag, yo))]

----------------------------------------------------------------------------
(* Element handlers.  Each returns the element as it leaves it, the value  *)
(* it returns, and the failure it exits the process with ("none" if it     *)
(* returns).                                                               *)

supported_commands == {"Line", "Move", "Close", "CubicBezier", "Arc"}

RECURSIVE PathLoop(_, _, _, _, _, _)
PathLoop(path, k, bounds, bounds_mode, xo, yo) ==
  IF k > Len(path) THEN [path |-> path, bounds |-> bounds, exit |-> "none"]
  ELSE IF path[k].kind \notin supported_commands
  THEN [path |-> path, bounds |-> bounds, exit |-> "UnsupportedPathCommand"]
  ELSE IF ~bounds_mode
  THEN PathLoop([path EXCEPT ![k] = manip_start_end(path[k], xo, yo)],
                k + 1, bounds, bounds_mode, xo, yo)
  ELSE PathLoop(path, k + 1,
                update_bounds(update_bounds(bounds, path[k].start), path[k].end),
                bounds_mode, xo, yo)

\* What handle_path does once its loop over the commands has ended as r.
PathResult(element, bounds_mode, r) ==
  IF r.exit # "none" THEN [element |-> element, ret |-> None, exit |-> r.exit]
  ELSE IF bounds_mode THEN [element |-> element, ret |-> r.bounds, exit |-> "none"]
  ELSE [element |-> [element EXCEPT !.d = r.path], ret |-> None, exit |-> "none"]

handle_path(element, bounds_mode, xo, yo) ==
  PathResult(element, bounds_mode,
             PathLoop(element.d, 1, NoBounds, bounds_mode, xo, yo))

handle_circle(element, bounds_mode, xo, yo) ==
  IF bounds_mode
  THEN [element |-> element, ret |-> complex(element.cx, element.cy), exit |-> "none"]
  ELSE [element |-> [element EXCEPT !.cx = QAdd(element.cx, xo),
                                    !.cy = QAdd(element.cy, yo)],
        ret |-> None, exit |-> "none"]

RemoveAt(s, i) == [j \in 1..(Len(s) - 1) |-> IF j < i THEN s[j] ELSE s[j + 1]]

\* The for loop of walk_group: a list iterator at position i over the
\* group's live child list, which group.remove() shortens under it.
RECURSIVE WalkLoop(_, _, _, _, _, _)
RECURSIVE walk_group(_, _, _, _)

\* The rest of an iteration once the child's handler has ended with `exit`
\* and, in bounds mode, merge_bounds has given m.
AfterMerge(children, i, bounds, bounds_mode, xo, yo, exit, m) ==
  IF exit # "none"
  THEN [children |-> children, bounds |-> bounds, exit |-> exit]
  ELSE IF ~bounds_mode
  THEN WalkLoop(children, i + 1, bounds, bounds_mode, xo, yo)
  ELSE IF m.raised
  THEN [children |-> children, bounds |-> m.dest, exit |-> "TypeError"]
  ELSE WalkLoop(children, i + 1, m.dest, bounds_mode, xo, yo)

AfterGroup(children, i, bounds, bounds_mode, xo, yo, r) ==
  AfterMerge([children EXCEPT ![i] = r.group], i, bounds, bounds_mode, xo, yo,
             r.exit, merge_bounds(bounds, r.bounds))

AfterPath(children, i, bounds, bounds_mode, xo, yo, r) ==
  AfterMerge([children EXCEPT ![i] = r.element], i, bounds, bounds_mode, xo, yo,
             r.exit, merge_bounds(bounds, r.ret))

AfterCircle(children, i, bounds, bounds_mode, xo, yo, r) ==
  WalkLoop([children EXCEPT ![i] = r.element], i + 1,
           IF bounds_mode THEN update_bounds(bounds, r.ret) ELSE bounds,
           bounds_mode, xo, yo)

WalkLoop(children, i, bounds, bounds_mode, xo, yo) ==
  IF i > Len(children)
  THEN [children |-> children, bounds |-> bounds, exit |-> "none"]
  ELSE IF children[i].tag \in ignore_tags
  THEN WalkLoop(children, i + 1, bounds, bounds_mode, xo, yo)
  ELSE IF children[i].tag \in strip_tags
  THEN WalkLoop(RemoveAt(children, i), i + 1, bounds, bounds_mode, xo, yo)
  ELSE IF children[i].tag = "g"
  THEN AfterGroup(children, i, bounds, bounds_mode, xo, yo,
                  walk_group(children[i], bounds_mode, xo, yo))
  ELSE IF children[i].tag = "path"
  THEN AfterPath(children, i, bounds, bounds_mode, xo, yo,
                 handle_path(children[i], bounds_mode, xo, yo))
  ELSE IF children[i].tag = "circle"
  THEN AfterCircle(children, i, bounds, bounds_mode, xo, yo,
                   handle_circle(children[i], bounds_mode, xo, yo))
  ELSE [children |-> children, bounds |-> bounds, exit |-> "UnknownElement"]

GroupResult(group, r) ==
  [group |-> [group EXCEPT !.children = r.children],
   bounds |-> r.bounds, exit |-> r.exit]

walk_group(group, bounds_mode, xo, yo) ==
  GroupResult(group, WalkLoop(group.children, 1, NoBounds, bounds_mode, xo, yo))

----------------------------------------------------------------------------
(* Bounded inputs: elements, groups and documents.                         *)

\* Elements under the root of a document, and under a group walked alone.
MaxElems == 3
MaxWalkElems == 3

Elem(tag, d, cx, cy, children) ==
  [tag |-> tag, d |-> d, cx |-> cx, cy |-> cy, children |-> children]

Cmd(kind, start, end, ctrl) ==
  [kind |-> kind, start |-> start, end |-> end, ctrl |-> ctrl]

P0 == complex(Q(0), Q(0))
P1 == complex(Q(100), Q(50))
P2 == complex(Q(70), Q(0))

\* "M 0,0 L 100,0 C 80,70 120,10 100,50 A 5,5 0 0,1 70,0 Z": every
\* supported command kind; the end points span (0,0)-(100,50).
PathAll ==
  LET a == complex(Q(100), Q(0)) IN
  << Cmd("Move", P0, P0, <<>>),
     Cmd("Line", P0, a, <<>>),
     Cmd("CubicBezier", a, P1, <<complex(Q(80), Q(70)), complex(Q(120), Q(10))>>),
     Cmd("Arc", P1, P2, <<>>),
     Cmd("Close", P2, P0, <<>>) >>

\* "M 70,0 Q 0,0 100,50": a quadratic curve, which handle_path rejects.
PathQuad ==
  << Cmd("Move", P2, P2, <<>>),
     Cmd("QuadraticBezier", P2, P1, <<P0>>) >>

Leaves ==
  { Elem("circle", <<>>, P1.real, P1.imag, <<>>),
    Elem("circle", <<>>, P2.real, P2.imag, <<>>),
    Elem("path", PathAll, None, None, <<>>),
    Elem("path", PathQuad, None, None, <<>>),
    Elem("title", <<>>, None, None, <<>>),
    Elem("text", <<>>, None, None, <<>>),
    Elem("rect", <<>>, None, None, <<>>) }

\* Forests(n): the child lists holding exactly n elements, nested ones
\* counted; Trees(n): the elements that with their descendants count n.
RECURSIVE Forests(_)
RECURSIVE Trees(_)
Trees(n) ==
  IF n = 1 THEN Leaves \cup {Elem("g", <<>>, None, None, <<>>)}
  ELSE {Elem("g", <<>>, None, None, f) : f \in Forests(n - 1)}
Forests(n) ==
  IF n = 0 THEN {<<>>}
  ELSE UNION {{<<t>> \o f : t \in Trees(k), f \in Forests(n - k)} : k \in 1..n}

ChildLists == UNION {Forests(n) : n \in 0..MaxElems}
Groups == {Elem("g", <<>>, None, None, f) :
             f \in UNION {Forests(n) : n \in 0..MaxWalkElems}}

Offsets == {<<Q(3), Q(-2)>>, <<<<13, 2>>, <<13, 2>>>>}

----------------------------------------------------------------------------
(* merge_bounds on its own, over boxes with any fields set or unset.       *)

BoxValues == {None, Q(1), Q(2)}
Boxes == {<<a, b, c, d>> : a \in BoxValues, b \in BoxValues,
                           c \in BoxValues, d \in BoxValues}

RunIdle ==
  /\ pc = "idle" /\ input_file = None /\ args = None /\ rect_padding_mm = None
  /\ root = None /\ global_bounds = NoBounds /\ scaling_info = None
  /\ x_off = None /\ y_off = None /\ uuwidth = None /\ uuheight = None
  /\ mmwidth = None /\ mmheight = None /\ temp_svg = None /\ do_rotate = FALSE
  /\ xy_pos = None /\ pdf = None /\ failure = "none" /\ exit_status = 0

WalkIdle ==
  /\ w_orig = None /\ w_group = None /\ w_off = None /\ w_step = "idle"
  /\ w_box1 = NoBounds /\ w_box2 = NoBounds

MergeIdle ==
  /\ m_dest = NoBounds /\ m_src = NoBounds /\ m_step = "idle" /\ m_raised = FALSE

MergeInit ==
  /\ m_dest \in Boxes /\ m_src \in Boxes
  /\ m_step = "fresh" /\ m_raised = FALSE
  /\ RunIdle /\ WalkIdle

MergeCall ==
  /\ m_step = "fresh"
  /\ \E m \in {merge_bounds(m_dest, m_src)} :
         m_dest' = m.dest /\ m_raised' = m.raised
  /\ m_step' = "merged"
  /\ UNCHANGED <<m_src, run_vars, walk_vars>>

MergeNext == MergeCall
MergeSpec == MergeInit /\ [][MergeNext]_vars

----------------------------------------------------------------------------
(* walk_group on its own: measure a group, transform it, measure again.    *)

WalkInit ==
  /\ w_orig \in Groups /\ w_group = w_orig /\ w_off \in Offsets
  /\ w_step = "fresh" /\ w_box1 = NoBounds /\ w_box2 = NoBounds
  /\ RunIdle /\ MergeIdle

WalkMeasure ==
  /\ w_step = "fresh"
  /\ \E r \in {walk_group(w_group, TRUE, Q(0), Q(0))} :
         /\ w_group' = r.group
         /\ w_box1' = r.bounds
         /\ w_step' = IF r.exit = "none" THEN "measured" ELSE "exited"
  /\ UNCHANGED <<w_orig, w_off, w_box2, run_vars, merge_vars>>

WalkTransform ==
  /\ w_step = "measured"
  /\ \E r \in {walk_group(w_group, FALSE, w_off[1], w_off[2])} :
         /\ w_group' = r.group
         /\ w_step' = IF r.exit = "none" THEN "transformed" ELSE "exited"
  /\ UNCHANGED <<w_orig, w_off, w_box1, w_box2, run_vars, merge_vars>>

WalkRemeasure ==
  /\ w_step = "transformed"
  /\ \E r \in {walk_group(w_group, TRUE, Q(0), Q(0))} :
         /\ w_group' = r.group
         /\ w_box2' = r.bounds
         /\ w_step' = IF r.exit = "none" THEN "remeasured" ELSE "exited"
  /\ UNCHANGED <<w_orig, w_off, w_box1, run_vars, merge_vars>>

WalkNext == WalkMeasure \/ WalkTransform \/ WalkRemeasure
WalkSpec == WalkInit /\ [][WalkNext]_vars

----------------------------------------------------------------------------
(* The run of main().                                                      *)

\* reportlab's units: lengths on the page are in points, mm = 72/25.4.
mm == <<360, 127>>
A4 == <<QMul(Q(210), mm), QMul(Q(297), mm)>>

positions == {"TL", "TC", "TR", "CL", "CC", "CR", "BL", "BC", "BR"}

\* sys.exit(1) at every failure of the script, and for an uncaught
\* exception; argparse leaves with 2 on an argument it rejects.
ExitStatus(kind) == IF kind = "InvalidAnchor" THEN 2 ELSE 1

\* A width or height attribute "<num><unit>" is [num, unit].
resolve_dimensions(r) ==
  IF r.width.unit = "mm" /\ r.height.unit = "mm"
  THEN <<r.width.num, r.height.num>>
  ELSE IF r.width.unit = "cm" /\ r.height.unit = "cm"
  THEN <<QMul(r.width.num, Q(10)), QMul(r.height.num, Q(10))>>
  ELSE None

analyze_scaling(r) ==
  LET dim == resolve_dimensions(r) IN
  IF dim = None THEN [ret |-> None, exit |-> "UnsupportedUnit"]
  ELSE LET result == QDiv(dim[1], r.viewBox[3]) IN
       IF QDiv(dim[2], r.viewBox[4]) # result
       THEN [ret |-> None, exit |-> "AnisotropicScaling"]
       ELSE [ret |-> <<dim[1], dim[2], result>>, exit |-> "none"]

decide_svg_xy_BR_uses_width(width, height, padding, position) ==
  LET left == QMul(padding, mm)
      top == QMul(padding, mm)
      hcenter == QSub(QDiv(A4[1], Q(2)), QDiv(QMul(width, mm), Q(2)))
      vcenter == QSub(QDiv(A4[2], Q(2)), QDiv(QMul(height, mm), Q(2)))
      right == QSub(QSub(A4[1], QMul(width, mm)), QMul(padding, mm))
      bottom == QSub(QSub(A4[2], QMul(height, mm)), QMul(padding, mm))
      wrong == QSub(QSub(A4[2], QMul(width, mm)), QMul(padding, mm))
  IN  CASE position = "TL" -> <<left, top>>
        [] position = "TC" -> <<hcenter, top>>
        [] position = "TR" -> <<right, top>>
        [] position = "CL" -> <<left, vcenter>>
        [] position = "CC" -> <<hcenter, vcenter>>
        [] position = "CR" -> <<right, vcenter>>
        [] position = "BL" -> <<left, bottom>>
        [] position = "BC" -> <<hcenter, bottom>>
        [] position = "BR" -> <<right, wrong>>
        [] OTHER -> None

decide_svg_xy(width, height, padding, position) ==
  LET left == QMul(padding, mm)
      top == QMul(padding, mm)
      hcenter == QSub(QDiv(A4[1], Q(2)), QDiv(QMul(width, mm), Q(2)))
      vcenter == QSub(QDiv(A4[2], Q(2)), QDiv(QMul(height, mm), Q(2)))
      right == QSub(QSub(A4[1], QMul(width, mm)), QMul(padding, mm))
      bottom == QSub(QSub(A4[2], QMul(height, mm)), QMul(padding, mm))
  IN  CASE position = "TL" -> <<left, top>>
        [] position = "TC" -> <<hcenter, top>>
        [] position = "TR" -> <<right, top>>
        [] position = "CL" -> <<left, vcenter>>
        [] position = "CC" -> <<hcenter, vcenter>>
        [] position = "CR" -> <<right, vcenter>>
        [] position = "BL" -> <<left, bottom>>
        [] position = "BC" -> <<hcenter, bottom>>
        [] position = "BR" -> <<right, bottom>>
        [] OTHER -> None

\* Inputs of a run.
NS == "http://www.w3.org/2000/svg"
Length(n, unit) == [num |-> n, unit |-> unit]
Canvas(w, h, vbw, vbh) ==
  [width |-> w, height |-> h, viewBox |-> <<Q(0), Q(0), Q(vbw), Q(vbh)>>]
Canvases ==
  { Canvas(Length(Q(200), "mm"), Length(Q(100), "mm"), 200, 100),
    Canvas(Length(Q(20), "cm"), Length(Q(10), "cm"), 400, 200),
    Canvas(Length(Q(200), "mm"), Length(Q(10), "cm"), 200, 100),
    Canvas(Length(Q(200), "px"), Length(Q(100), "px"), 200, 100),
    Canvas(Length(Q(200), "mm"), Length(Q(100), "mm"), 200, 50) }

RECURSIVE Qualified(_)
Qualified(e) ==
  [e EXCEPT !.tag = <<NS, e.tag>>,
            !.children = [k \in 1..Len(e.children) |-> Qualified(e.children[k])]]

Document(c, f) ==
  [tag |-> <<NS, "svg">>, width |-> c.width, height |-> c.height,
   viewBox |-> c.viewBox, children |-> [k \in 1..Len(f) |-> Qualified(f[k])]]

Documents == {Document(c, f) : c \in Canvases, f \in ChildLists}

PositionArgs == positions \cup {"XX"}
RectWidths == {0, 5}
RectDistances == {<<3, 2>>}
PagePaddings == {Q(10)}
InputPaths == {[isfile |-> TRUE, svg |-> TRUE], [isfile |-> FALSE, svg |-> TRUE],
               [isfile |-> TRUE, svg |-> FALSE]}

\* root.iter() with normalize_tag on every element.
RECURSIVE NormalizedTags(_)
NormalizedTags(e) ==
  [e EXCEPT !.tag = normalize_tag(e.tag),
            !.children = [k \in 1..Len(e.children) |-> NormalizedTags(e.children[k])]]

\* The two loops of main over the root's children: groups are walked, any
\* other child is passed over.
RECURSIVE RootLoop(_, _, _, _, _, _)

AfterRootMerge(children, i, bounds, bounds_mode, xo, yo, exit, m) ==
  IF exit # "none"
  THEN [children |-> children, bounds |-> bounds, exit |-> exit]
  ELSE IF ~bounds_mode
  THEN RootLoop(children, i + 1, bounds, bounds_mode, xo, yo)
  ELSE IF m.raised
  THEN [children |-> children, bounds |-> m.dest, exit |-> "TypeError"]
  ELSE RootLoop(children, i + 1, m.dest, bounds_mode, xo, yo)

AfterRootGroup(children, i, bounds, bounds_mode, xo, yo, r) ==
  AfterRootMerge([children EXCEPT ![i] = r.group], i, bounds, bounds_mode, xo, yo,
                 r.exit, merge_bounds(bounds, r.bounds))

RootLoop(children, i, bounds, bounds_mode, xo, yo) ==
  IF i > Len(children)
  THEN [children |-> children, bounds |-> bounds, exit |-> "none"]
  ELSE IF children[i].tag # "g"
  THEN RootLoop(children, i + 1, bounds, bounds_mode, xo, yo)
  ELSE AfterRootGroup(children, i, bounds, bounds_mode, xo, yo,
                      walk_group(children[i], bounds_mode, xo, yo))

plan_offset_no_gap(lo, mm_per_uu, rect_width_mm, gap) ==
  QAdd(QNeg(lo), QMul(QDiv(Q(1), mm_per_uu), Q(rect_width_mm)))

plan_offset(lo, mm_per_uu, rect_width_mm, gap) ==
  QAdd(QNeg(lo), QMul(QDiv(Q(1), mm_per_uu), QAdd(Q(rect_width_mm), gap)))

canvas_extent(lo, hi, mm_per_uu, rect_width_mm, gap) ==
  QAdd(QSub(hi, lo),
       QMul(QDiv(Q(1), mm_per_uu),
            QAdd(QMul(gap, Q(2)), QMul(Q(rect_width_mm), Q(2)))))

Fail(kind) ==
  /\ pc' = "failed"
  /\ failure' = kind
  /\ exit_status' = ExitStatus(kind)

Init ==
  /\ pc = "start" /\ input_file = None /\ args = None /\ rect_padding_mm = None
  /\ root = None /\ global_bounds = NoBounds /\ scaling_info = None
  /\ x_off = None /\ y_off = None /\ uuwidth = None /\ uuheight = None
  /\ mmwidth = None /\ mmheight = None /\ temp_svg = None /\ do_rotate = FALSE
  /\ xy_pos = None /\ pdf = None /\ failure = "none" /\ exit_status = 0
  /\ WalkIdle /\ MergeIdle

\* parser.parse_args(): a position outside the choices is rejected.
ParseArgs ==
  /\ pc = "start"
  /\ \E position \in PositionArgs, rw \in RectWidths, rd \in RectDistances,
        pp \in PagePaddings :
       IF position \notin positions
       THEN /\ Fail("InvalidAnchor")
            /\ UNCHANGED <<args, rect_padding_mm>>
       ELSE /\ args' = [position |-> position, rect_width |-> rw,
                        rect_distance |-> rd, page_padding |-> pp]
            /\ rect_padding_mm' = rd
            /\ pc' = "validate"
            /\ UNCHANGED <<failure, exit_status>>
  /\ UNCHANGED <<input_file, root, global_bounds, scaling_info, x_off, y_off,
                 uuwidth, uuheight, mmwidth, mmheight, temp_svg, do_rotate,
                 xy_pos, pdf, walk_vars, merge_vars>>

ValidatePath ==
  /\ pc = "validate"
  /\ \E path \in InputPaths :
       IF ~path.isfile \/ ~path.svg
       THEN Fail("InvalidInputPath")
       ELSE pc' = "load" /\ UNCHANGED <<failure, exit_status>>
  /\ UNCHANGED <<input_file, args, rect_padding_mm, root, global_bounds,
                 scaling_info, x_off, y_off, uuwidth, uuheight, mmwidth,
                 mmheight, temp_svg, do_rotate, xy_pos, pdf, walk_vars, merge_vars>>

\* No rectangle, no padding; then ET.parse and the tag normalisation.
LoadTree ==
  /\ pc = "load"
  /\ rect_padding_mm' = IF args.rect_width = 0 THEN Q(0) ELSE rect_padding_mm
  /\ \E doc \in Documents :
       /\ input_file' = doc
       /\ root' = NormalizedTags(doc)
  /\ pc' = "measure"
  /\ UNCHANGED <<args, global_bounds, scaling_info, x_off, y_off, uuwidth,
                 uuheight, mmwidth, mmheight, temp_svg, do_rotate, xy_pos, pdf,
                 failure, exit_status, walk_vars, merge_vars>>

MeasurePass ==
  /\ pc = "measure"
  /\ \E r \in {RootLoop(root.children, 1, NoBounds, TRUE, Q(0), Q(0))} :
         /\ root' = [root EXCEPT !.children = r.children]
         /\ global_bounds' = r.bounds
         /\ IF r.exit # "none" THEN Fail(r.exit)
            ELSE pc' = "scaling" /\ UNCHANGED <<failure, exit_status>>
  /\ UNCHANGED <<input_file, args, rect_padding_mm, scaling_info, x_off, y_off,
                 uuwidth, uuheight, mmwidth, mmheight, temp_svg, do_rotate,
                 xy_pos, pdf, walk_vars, merge_vars>>

AnalyzeScaling ==
  /\ pc = "scaling"
  /\ \E r \in {analyze_scaling(root)} :
         /\ scaling_info' = r.ret
         /\ IF r.exit # "none" THEN Fail(r.exit)
            ELSE pc' = "offset" /\ UNCHANGED <<failure, exit_status>>
  /\ UNCHANGED <<input_file, args, rect_padding_mm, root, global_bounds, x_off,
                 y_off, uuwidth, uuheight, mmwidth, mmheight, temp_svg,
                 do_rotate, xy_pos, pdf, walk_vars, merge_vars>>

\* -global_bounds[0] raises TypeError when nothing was measured.
PlanOffset ==
  /\ pc = "offset"
  /\ IF global_bounds[1] = None
     THEN Fail("TypeError") /\ UNCHANGED <<x_off, y_off>>
     ELSE /\ x_off' = plan_offset(global_bounds[1], scaling_info[3],
                                  args.rect_width, rect_padding_mm)
          /\ y_off' = plan_offset(global_bounds[2], scaling_info[3],
                                  args.rect_width, rect_padding_mm)
          /\ pc' = "transform"
          /\ UNCHANGED <<failure, exit_status>>
  /\ UNCHANGED <<input_file, args, rect_padding_mm, root, global_bounds,
                 scaling_info, uuwidth, uuheight, mmwidth, mmheight, temp_svg,
                 do_rotate, xy_pos, pdf, walk_vars, merge_vars>>

TransformPass ==
  /\ pc = "transform"
  /\ \E r \in {RootLoop(root.children, 1, NoBounds, FALSE, x_off, y_off)} :
         /\ root' = [root EXCEPT !.children = r.children]
         /\ IF r.exit # "none" THEN Fail(r.exit)
            ELSE pc' = "canvas" /\ UNCHANGED <<failure, exit_status>>
  /\ UNCHANGED <<input_file, args, rect_padding_mm, global_bounds, scaling_info,
                 x_off, y_off, uuwidth, uuheight, mmwidth, mmheight, temp_svg,
                 do_rotate, xy_pos, pdf, walk_vars, merge_vars>>

RewriteCanvas ==
  /\ pc = "canvas"
  /\ LET w == canvas_extent(global_bounds[1], global_bounds[3], scaling_info[3],
                            args.rect_width, rect_padding_mm)
         h == canvas_extent(global_bounds[2], global_bounds[4], scaling_info[3],
                            args.rect_width, rect_padding_mm)
     IN  /\ uuwidth' = w
         /\ uuheight' = h
         /\ mmwidth' = QMul(scaling_info[3], w)
         /\ mmheight' = QMul(scaling_info[3], h)
         /\ root' = [root EXCEPT
                       !.width = Length(QMul(scaling_info[3], w), "mm"),
                       !.height = Length(QMul(scaling_info[3], h), "mm"),
                       !.viewBox = <<Q(0), Q(0), w, h>>]
  /\ pc' = "rect"
  /\ UNCHANGED <<input_file, args, rect_padding_mm, global_bounds, scaling_info,
                 x_off, y_off, temp_svg, do_rotate, xy_pos, pdf, failure,
                 exit_status, walk_vars, merge_vars>>

AppendRect ==
  /\ pc = "rect"
  /\ LET rect_width_uu == QMul(Q(args.rect_width), QDiv(Q(1), scaling_info[3]))
         rect_elem == [tag |-> "rect",
                       x |-> QDiv(rect_width_uu, Q(2)),
                       y |-> QDiv(rect_width_uu, Q(2)),
                       width |-> QSub(uuwidth, rect_width_uu),
                       height |-> QSub(uuheight, rect_width_uu),
                       stroke_width |-> rect_width_uu,
                       fill |-> "none",
                       children |-> <<>>]
         rect_container == [tag |-> "g", children |-> <<rect_elem>>]
     IN  root' = [root EXCEPT !.children = Append(@, rect_container)]
  /\ pc' = "write"
  /\ UNCHANGED <<input_file, args, rect_padding_mm, global_bounds, scaling_info,
                 x_off, y_off, uuwidth, uuheight, mmwidth, mmheight, temp_svg,
                 do_rotate, xy_pos, pdf, failure, exit_status, walk_vars,
                 merge_vars>>

WriteSvg ==
  /\ pc = "write"
  /\ temp_svg' = root
  /\ pc' = "render"
  /\ UNCHANGED <<input_file, args, rect_padding_mm, root, global_bounds,
                 scaling_info, x_off, y_off, uuwidth, uuheight, mmwidth,
                 mmheight, do_rotate, xy_pos, pdf, failure, exit_status,
                 walk_vars, merge_vars>>

\* svg2rlg reads the written file; the drawing's width and height are its
\* declared width and height in points.
Render ==
  /\ pc = "render"
  /\ LET svg_rlg == [width |-> QMul(temp_svg.width.num, mm),
                     height |-> QMul(temp_svg.height.num, mm)]
         rotate == QGt(svg_rlg.height, svg_rlg.width)
     IN  /\ do_rotate' = rotate
         /\ mmwidth' = IF rotate THEN mmheight ELSE mmwidth
         /\ mmheight' = IF rotate THEN mmwidth ELSE mmheight
  /\ pc' = "place"
  /\ UNCHANGED <<input_file, args, rect_padding_mm, root, global_bounds,
                 scaling_info, x_off, y_off, uuwidth, uuheight, temp_svg,
                 xy_pos, pdf, failure, exit_status, walk_vars, merge_vars>>

Place ==
  /\ pc = "place"
  /\ xy_pos' = decide_svg_xy(mmwidth, mmheight, args.page_padding, args.position)
  /\ pc' = "draw"
  /\ UNCHANGED <<input_file, args, rect_padding_mm, root, global_bounds,
                 scaling_info, x_off, y_off, uuwidth, uuheight, mmwidth,
                 mmheight, temp_svg, do_rotate, pdf, failure, exit_status,
                 walk_vars, merge_vars>>

\* xy_pos[0] raises TypeError when decide_svg_xy returned None.
DrawSave ==
  /\ pc = "draw"
  /\ IF xy_pos = None
     THEN Fail("TypeError") /\ UNCHANGED pdf
     ELSE /\ pdf' = [x |-> xy_pos[1],
                     y |-> QSub(QSub(QSub(A4[2], xy_pos[2]), QMul(mmheight, mm)),
                                QMul(Q(3), mm)),
                     rotated |-> do_rotate]
          /\ pc' = "done"
          /\ UNCHANGED <<failure, exit_status>>
  /\ UNCHANGED <<input_file, args, rect_padding_mm, root, global_bounds,
                 scaling_info, x_off, y_off, uuwidth, uuheight, mmwidth,
                 mmheight, temp_svg, do_rotate, xy_pos, walk_vars, merge_vars>>

Next ==
  \/ ParseArgs \/ ValidatePath \/ LoadTree \/ MeasurePass \/ AnalyzeScaling
  \/ PlanOffset \/ TransformPass \/ RewriteCanvas \/ AppendRect \/ WriteSvg
  \/ Render \/ Place \/ DrawSave

Spec == Init /\ [][Next]_vars

----------------------------------------------------------------------------
(* Reference definitions used to state the properties: what a walk that    *)
(* filters and handles every child would leave and return.                 *)

RECURSIVE SeqStripped(_)
RECURSIVE Stripped(_)
SeqStripped(s) ==
  IF s = <<>> THEN <<>>
  ELSE IF Head(s).tag \in strip_tags THEN SeqStripped(Tail(s))
  ELSE <<Stripped(Head(s))>> \o SeqStripped(Tail(s))
Stripped(e) == [e EXCEPT !.children = SeqStripped(e.children)]

\* The primitives (paths and circles) of a subtree, in document order.
RECURSIVE SeqPrimitives(_)
RECURSIVE Primitives(_)
SeqPrimitives(s) ==
  IF s = <<>> THEN <<>> ELSE Primitives(Head(s)) \o SeqPrimitives(Tail(s))
Primitives(e) ==
  IF e.tag \in {"path", "circle"} THEN <<e>>
  ELSE IF e.tag = "g" THEN SeqPrimitives(e.children)
  ELSE <<>>

\* The points a primitive is measured by: command start and end points, or
\* the circle's centre.
MeasuredPoints(p) ==
  IF p.tag = "circle" THEN {complex(p.cx, p.cy)}
  ELSE {p.d[k].start : k \in 1..Len(p.d)} \cup {p.d[k].end : k \in 1..Len(p.d)}

GroupPoints(e) ==
  LET ps == Primitives(e) IN UNION {MeasuredPoints(ps[k]) : k \in 1..Len(ps)}

BoxOfPoints(S) ==
  IF S = {} THEN NoBounds
  ELSE << (CHOOSE p \in S : \A q \in S : QLe(p.real, q.real)).real,
          (CHOOSE p \in S : \A q \in S : QLe(p.imag, q.imag)).imag,
          (CHOOSE p \in S : \A q \in S : QLe(q.real, p.real)).real,
          (CHOOSE p \in S : \A q \in S : QLe(q.imag, p.imag)).imag >>

ShiftPoint(p, dx, dy) == complex(QAdd(p.real, dx), QAdd(p.imag, dy))

ShiftBox(b, dx, dy) ==
  IF b = NoBounds THEN NoBounds
  ELSE <<QAdd(b[1], dx), QAdd(b[2], dy), QAdd(b[3], dx), QAdd(b[4], dy)>>

\* A primitive with its measured points moved by (dx, dy).
ShiftEnds(p, dx, dy) ==
  IF p.tag = "circle"
  THEN [p EXCEPT !.cx = QAdd(p.cx, dx), !.cy = QAdd(p.cy, dy)]
  ELSE [p EXCEPT !.d = [k \in 1..Len(p.d) |->
                          [p.d[k] EXCEPT !.start = ShiftPoint(p.d[k].start, dx, dy),
                                         !.end = ShiftPoint(p.d[k].end, dx, dy)]]]

\* A primitive with every coordinate moved by (dx, dy), control points too.
ShiftAll(p, dx, dy) ==
  IF p.tag = "circle" THEN ShiftEnds(p, dx, dy)
  ELSE LET q == ShiftEnds(p, dx, dy)
       IN  [q EXCEPT !.d = [k \in 1..Len(q.d) |->
              [q.d[k] EXCEPT !.ctrl = [j \in 1..Len(q.d[k].ctrl) |->
                                         ShiftPoint(q.d[k].ctrl[j], dx, dy)]]]]

RECURSIVE SeqKnown(_)
RECURSIVE Known(_)
SeqKnown(s) == s = <<>> \/ (Known(Head(s)) /\ SeqKnown(Tail(s)))
Known(e) ==
  /\ e.tag \in {"g", "path", "circle"} \cup ignore_tags \cup strip_tags
  /\ e.tag = "path" => \A k \in 1..Len(e.d) : e.d[k].kind \in supported_commands
  /\ SeqKnown(e.children)

----------------------------------------------------------------------------
(* Properties of the bounds helpers and the walker.                        *)

\* C1: for a tree of groups, paths, circles, ignored and strippable
\* elements, measuring, transforming by (dx, dy) and measuring again
\* returns the first box shifted by (dx, dy).
C1_RoundTrip ==
  (w_step = "remeasured" /\ Known(w_orig))
    => w_box2 = ShiftBox(w_box1, w_off[1], w_off[2])

\* C3: one walk of a group, in either mode, removes every strippable
\* child, leaves the ignored ones alone and handles every other child
\* exactly once: a measuring walk leaves the stripped tree and returns the
\* box of all its primitives, a transforming walk leaves the stripped tree
\* with every primitive moved once.
C3_FilterAndHandleOnce ==
  /\ w_step = "measured" =>
       /\ w_group = Stripped(w_orig)
       /\ w_box1 = BoxOfPoints(GroupPoints(Stripped(w_orig)))
  /\ w_step = "transformed" =>
       /\ SeqStripped(w_group.children) = w_group.children
       /\ Primitives(w_group) =
            [k \in 1..Len(Primitives(Stripped(w_orig))) |->
               ShiftEnds(Primitives(Stripped(w_orig))[k], w_off[1], w_off[2])]

\* C4: merge_bounds merges every set field of src into dest, whatever
\* other fields of src are unset, and leaves dest alone when src is fully
\* unset.
C4_MergeEachField ==
  [][MergeCall =>
       /\ ~m_raised'
       /\ \A k \in 1..4 : m_src[k] # None =>
            /\ m_dest'[k] # None
            /\ IF k <= 2 THEN QLe(m_dest'[k], m_src[k]) ELSE QLe(m_src[k], m_dest'[k])
       /\ m_src = NoBounds => m_dest' = m_dest]_vars

\* A box is well formed when it is fully unset or fully set and ordered.
BoxOK(b) ==
  \/ b = NoBounds
  \/ /\ \A k \in 1..4 : b[k] # None
     /\ QLe(b[1], b[3])
     /\ QLe(b[2], b[4])

\* C5: every box a measuring walk returns is fully unset, or has all four
\* fields set with minX <= maxX and minY <= maxY.
C5_BoxInvariant == BoxOK(w_box1) /\ BoxOK(w_box2)

C5_Witness ==
  /\ w_step = "remeasured"
  /\ \E k \in 1..Len(w_orig.children) :
       w_orig.children[k].tag = "g" /\ w_orig.children[k].children # <<>>
  /\ w_box1 # NoBounds
  /\ QLt(w_box1[1], w_box1[3])
  /\ QLt(w_box1[2], w_box1[4])

----------------------------------------------------------------------------
(* Properties of the run of main().                                        *)

Recognised == {"g", "path", "circle"} \cup ignore_tags \cup strip_tags

RECURSIVE SeqHasUnknown(_)
SeqHasUnknown(s) ==
  /\ s # <<>>
  /\ \/ Head(s).tag \notin Recognised
     \/ SeqHasUnknown(Head(s).children)
     \/ SeqHasUnknown(Tail(s))

RECURSIVE SeqPathsSupported(_)
SeqPathsSupported(s) ==
  \/ s = <<>>
  \/ /\ Head(s).tag = "path" =>
          \A k \in 1..Len(Head(s).d) : Head(s).d[k].kind \in supported_commands
     /\ SeqPathsSupported(Head(s).children)
     /\ SeqPathsSupported(Tail(s))

Parsed == NormalizedTags(input_file)
Ended == pc \in {"done", "failed"}
Planned == pc \in {"transform", "canvas", "rect", "write", "render", "place", "draw", "done"}
Transformed == pc \in {"canvas", "rect", "write", "render", "place", "draw", "done"}
Resized == pc \in {"rect", "write", "render", "place", "draw", "done"}
Bordered == pc \in {"write", "render", "place", "draw", "done"}

\* C2: a document holding an element that is none of group, path, circle,
\* ignored or strippable (and no other fault: supported path commands,
\* units and scaling) ends in UnknownElement, with the tree as parsed.
C2_UnknownElementHalts ==
  (Ended /\ input_file # None /\ SeqHasUnknown(Parsed.children)
     /\ SeqPathsSupported(Parsed.children) /\ analyze_scaling(Parsed).exit = "none")
    => (failure = "UnknownElement" /\ root = Parsed)

\* C6: the offset is minus the box minimum plus (t+g)/u on each axis, the
\* new internal size (max - min) + 2(t+g)/u, the physical size that times
\* u, and the border rectangle sits at (t/u)/2 with size less t/u and
\* stroke width t/u; g counts as 0 when t = 0.
C6_LayoutPlan ==
  Planned =>
    LET t == Q(args.rect_width)
        g == IF args.rect_width = 0 THEN Q(0) ELSE args.rect_distance
        u == scaling_info[3]
        pad == QDiv(QAdd(t, g), u)
        w == QAdd(QSub(global_bounds[3], global_bounds[1]), QMul(Q(2), pad))
        h == QAdd(QSub(global_bounds[4], global_bounds[2]), QMul(Q(2), pad))
        border == root.children[Len(root.children)]
    IN  /\ x_off = QSub(pad, global_bounds[1])
        /\ y_off = QSub(pad, global_bounds[2])
        /\ Resized =>
             /\ uuwidth = w /\ uuheight = h
             /\ root.viewBox = <<Q(0), Q(0), w, h>>
             /\ root.width = Length(QMul(w, u), "mm")
             /\ root.height = Length(QMul(h, u), "mm")
        /\ Bordered =>
             /\ border.tag = "g" /\ Len(border.children) = 1
             /\ border.children[1].tag = "rect"
             /\ border.children[1].x = QDiv(QDiv(t, u), Q(2))
             /\ border.children[1].y = QDiv(QDiv(t, u), Q(2))
             /\ border.children[1].width = QSub(w, QDiv(t, u))
             /\ border.children[1].height = QSub(h, QDiv(t, u))
             /\ border.children[1].stroke_width = QDiv(t, u)
             /\ border.children[1].fill = "none"

\* Thickness 5, gap 1.5, scale 1 and box (0,0,100,50) give offset 6.5,
\* size (113,63), inset 2.5 and stroke 5.
C6_Witness ==
  /\ pc = "done"
  /\ args.rect_width = 5 /\ rect_padding_mm = <<3, 2>> /\ scaling_info[3] = Q(1)
  /\ global_bounds = <<Q(0), Q(0), Q(100), Q(50)>>
  /\ x_off = <<13, 2>> /\ y_off = <<13, 2>>
  /\ uuwidth = Q(113) /\ uuheight = Q(63)
  /\ root.children[Len(root.children)].children[1].x = <<5, 2>>
  /\ root.children[Len(root.children)].children[1].stroke_width = Q(5)

Column(position) ==
  CASE position \in {"TL", "CL", "BL"} -> "start"
    [] position \in {"TC", "CC", "BC"} -> "center"
    [] position \in {"TR", "CR", "BR"} -> "end"

Row(position) ==
  CASE position \in {"TL", "TC", "TR"} -> "start"
    [] position \in {"CL", "CC", "CR"} -> "center"
    [] position \in {"BL", "BC", "BR"} -> "end"

Aligned(where, pageExtent, contentExtent, padding) ==
  CASE where = "start" -> padding
    [] where = "center" -> QSub(QDiv(pageExtent, Q(2)), QDiv(contentExtent, Q(2)))
    [] where = "end" -> QSub(QSub(pageExtent, contentExtent), padding)

FailureKinds ==
  {"UnsupportedUnit", "AnisotropicScaling", "UnknownElement",
   "UnsupportedPathCommand", "InvalidAnchor", "InvalidInputPath"}

\* C8: a run that fails fails with one of the six kinds, with a non-zero
\* status of its own per kind, and has written neither the normalized
\* document nor the page.
C8_FailureTaxonomy ==
  pc = "failed" =>
    /\ failure \in FailureKinds
    /\ exit_status # 0
    /\ \A k \in FailureKinds \ {failure} : ExitStatus(k) # exit_status
    /\ temp_svg = None /\ pdf = None

\* C9: after the transform pass every path and circle of the document has
\* every coordinate, control points included, at its parsed value plus the
\* offset.
C9_RigidTranslation ==
  Transformed =>
    SeqPrimitives(root.children) =
      [k \in 1..Len(SeqPrimitives(Parsed.children)) |->
         ShiftAll(SeqPrimitives(Parsed.children)[k], x_off, y_off)]

\* C10: after a successful run every measured point left in the tree lies
\* within [pad, W - pad] x [pad, H - pad], and the least x and the least y
\* are pad.
C10_CanvasFit ==
  pc = "done" =>
    LET pad == QDiv(QAdd(Q(args.rect_width), rect_padding_mm), scaling_info[3])
        ps == SeqPrimitives(root.children)
        S == UNION {MeasuredPoints(ps[k]) : k \in 1..Len(ps)}
    IN  /\ \A p \in S : /\ QLe(pad, p.real) /\ QLe(p.real, QSub(uuwidth, pad))
                        /\ QLe(pad, p.imag) /\ QLe(p.imag, QSub(uuheight, pad))
        /\ \E p \in S : p.real = pad
        /\ \E p \in S : p.imag = pad

====
